---- MODULE Spec2Model ----
(***************************************************************************)
(* Model of function.py (NERVE): the annotation pipeline                   *)
(*   retrieve_entry_function -> DeepFri run -> DeepFriParser -> merge.     *)
(* Strings are TLA+ strings (sequences of characters), data frames are     *)
(* records [columns, rows], exceptions are a record in err and the control *)
(* point "raised".                                                         *)
(***************************************************************************)
EXTENDS Naturals, Sequences, FiniteSets, TLC

VARIABLES
    fasta_list,   \* list(SeqIO.parse(...)): the record identifiers, in order
    pc,           \* control point of main
    k,            \* position of the for loop of retrieve_entry_function
    dic,          \* dic: insertion-ordered, sequence of <<Id, [text]>>
    tdp,          \* tdp: records whose function was not found
    requests,     \* urlopen calls issued so far: [rec, AC]
    outcomes,     \* what each processed record's lookup did: [kind, key]
    err,          \* the exception that left main, if any: [type, stage, at]
    outfile,      \* records written to deep_fri_input.fa
    UniProt_df,   \* result of retrieve_entry_function
    csv,          \* DeepFRI_MF_predictions.csv as read by pd.read_csv
    DeepFri_df,   \* result of DeepFriParser
    final_df      \* the table written to annotation.csv

vars == <<fasta_list, pc, k, dic, tdp, requests, outcomes, err, outfile,
          UniProt_df, csv, DeepFri_df, final_df>>

---------------------------------------------------------------------------
\* Bounds of the model

\* longest input record list
MaxRecords == 2
\* most data rows of the predictor table in a whole run of main
MaxPredRows == 1
\* most data rows of the predictor table when DeepFriParser is run alone
MaxRows == 3

\* identifiers of input records: two with an accession field, one without
IdPool == {"sp|P1|a", "tr|P2", "P3"}
\* values of record.annotations["comment_function"]
CommentLists == {<<"f">>, <<"f", "g">>}
\* values of the Score and GO_term/EC_number name columns
Scores == {1, 2}
Labels == {"A", "B"}

---------------------------------------------------------------------------
\* Helpers: sequences and strings

Range(s) == {s[i] : i \in 1..Len(s)}

Distinct(s) == \A i, j \in 1..Len(s) : i # j => s[i] # s[j]

SeqsUpTo(S, n) == UNION {[1..m -> S] : m \in 0..n}

Reverse(s) == [i \in 1..Len(s) |-> s[Len(s) + 1 - i]]

\* str.split(sep) for a one-character separator
RECURSIVE SplitFrom(_, _, _, _)
SplitFrom(s, sep, i, cur) ==
    IF i > Len(s) THEN <<cur>>
    ELSE IF SubSeq(s, i, i) = sep
         THEN <<cur>> \o SplitFrom(s, sep, i + 1, "")
         ELSE SplitFrom(s, sep, i + 1, cur \o SubSeq(s, i, i))

Split(s, sep) == SplitFrom(s, sep, 1, "")

\* sep.join(items)
RECURSIVE Join(_, _)
Join(items, sep) ==
    IF items = <<>> THEN ""
    ELSE IF Len(items) = 1 THEN items[1]
    ELSE items[1] \o sep \o Join(Tail(items), sep)

\* Series.unique(): the values in order of first appearance
RECURSIVE Unique(_)
Unique(s) ==
    IF s = <<>> THEN <<>>
    ELSE LET init == Unique(SubSeq(s, 1, Len(s) - 1))
             last == s[Len(s)]
         IN  IF last \in Range(init) THEN init ELSE Append(init, last)

---------------------------------------------------------------------------
\* Data frames

FrameColumns == <<"Protein", "Function">>

NoFrame == [columns |-> <<>>, rows |-> <<>>]

\* df[name]: the values of a column
Column(df, name) ==
    LET c == CHOOSE i \in 1..Len(df.columns) : df.columns[i] = name
    IN  [r \in 1..Len(df.rows) |-> df.rows[r][c]]

\* pd.concat([a, b]) of two frames with the same columns
Concat(a, b) == [columns |-> a.columns, rows |-> a.rows \o b.rows]

NoError == [type |-> "none", stage |-> "", at |-> 0]

---------------------------------------------------------------------------
\* retrieve_entry_function

\* what urlopen + SeqIO.read + record.annotations["comment_function"] can do
\* for one record: return the comments, raise KeyError (of the missing
\* comment_function field or of another key), or fail at the transport
LookupOutcomes ==
    {[kind |-> "found", key |-> "", comments |-> c] : c \in CommentLists}
    \cup {[kind |-> "KeyError", key |-> "comment_function", comments |-> <<>>],
          [kind |-> "KeyError", key |-> "accession", comments |-> <<>>],
          [kind |-> "URLError", key |-> "", comments |-> <<>>]}

\* AC = p.id.split("|")[0]: the first field, which every identifier has
AccessionFirstField(Id) ==
    [ok |-> TRUE, AC |-> Split(Id, "|")[1]]

\* AC = p.id.split("|")[1]: IndexError when there is no second field
Accession(Id) ==
    LET fields == Split(Id, "|")
    IN  IF Len(fields) >= 2
        THEN [ok |-> TRUE, AC |-> fields[2]]
        ELSE [ok |-> FALSE, AC |-> ""]

\* dic[key] = value: a new key goes last, an old key keeps its place
DictSet(d, key, value) ==
    IF \E i \in 1..Len(d) : d[i][1] = key
    THEN [i \in 1..Len(d) |-> IF d[i][1] = key THEN <<key, value>> ELSE d[i]]
    ELSE Append(d, <<key, value>>)

DictKeys(d) == {d[i][1] : i \in 1..Len(d)}

\* f'Uniprot annotations: {" | ".join(...)}'
UniprotText(comments) == "Uniprot annotations: " \o Join(comments, " | ")

\* pd.DataFrame.from_dict(dic, orient='index'): one row per key, one column
\* per element of the value lists; no column at all for an empty dict
FromDict(d) ==
    [index   |-> [i \in 1..Len(d) |-> d[i][1]],
     columns |-> IF d = <<>> THEN <<>> ELSE [j \in 1..Len(d[1][2]) |-> "0"],
     rows    |-> [i \in 1..Len(d) |-> d[i][2]]]

\* output_df.reset_index(): the index becomes the first column
ResetIndex(df) ==
    [columns |-> <<"index">> \o df.columns,
     rows    |-> [i \in 1..Len(df.rows) |-> <<df.index[i]>> \o df.rows[i]]]

\* one pass of the for loop over fasta_list
ExtractFunction(o) ==
    /\ pc = "extract"
    /\ k <= Len(fasta_list)
    /\ LET Id  == fasta_list[k]
           acc == Accession(Id)
       IN  IF ~acc.ok
           THEN /\ pc' = "raised"
                /\ err' = [type |-> "IndexError",
                           stage |-> "retrieve_entry_function", at |-> k]
                /\ outcomes' = Append(outcomes, [kind |-> "IndexError", key |-> ""])
                /\ UNCHANGED <<k, dic, tdp, requests>>
           ELSE /\ requests' = Append(requests, [rec |-> k, AC |-> acc.AC])
                /\ outcomes' = Append(outcomes, [kind |-> o.kind, key |-> o.key])
                /\ IF o.kind = "found"
                   THEN /\ dic' = DictSet(dic, Id, <<UniprotText(o.comments)>>)
                        /\ k' = k + 1
                        /\ UNCHANGED <<tdp, pc, err>>
                   ELSE IF o.kind = "KeyError"
                   THEN /\ tdp' = IF o.key = "comment_function"
                                  THEN Append(tdp, Id) ELSE tdp
                        /\ k' = k + 1
                        /\ UNCHANGED <<dic, pc, err>>
                   ELSE /\ pc' = "raised"
                        /\ err' = [type |-> o.kind,
                                   stage |-> "retrieve_entry_function", at |-> k]
                        /\ UNCHANGED <<k, dic, tdp>>
    /\ UNCHANGED <<fasta_list, outfile, UniProt_df, csv, DeepFri_df, final_df>>

\* after the loop: write outfile, build and rename the data frame
BuildFrame ==
    /\ pc = "extract"
    /\ k > Len(fasta_list)
    /\ outfile' = tdp
    /\ LET output_df == ResetIndex(FromDict(dic))
       IN  IF Len(output_df.columns) # Len(FrameColumns)
           THEN /\ pc' = "raised"
                /\ err' = [type |-> "ValueError",
                           stage |-> "retrieve_entry_function", at |-> 0]
                /\ UNCHANGED UniProt_df
           ELSE /\ UniProt_df' = [columns |-> FrameColumns, rows |-> output_df.rows]
                /\ pc' = "predict"
                /\ UNCHANGED err
    /\ UNCHANGED <<fasta_list, k, dic, tdp, requests, outcomes, csv, DeepFri_df,
                   final_df>>

---------------------------------------------------------------------------
\* The predictor and DeepFriParser

RequiredColumns == {"Protein", "Score", "GO_term/EC_number name"}

FullRow(p, s, g) ==
    [c \in RequiredColumns |->
        CASE c = "Protein" -> p [] c = "Score" -> s [] OTHER -> g]

FullRows == {FullRow(p, s, g) : p \in IdPool, s \in Scores, g \in Labels}

Restrict(row, cols) == [c \in cols |-> row[c]]

\* the tables pd.read_csv can return: any of the required columns may be
\* absent, rows in any order
Tables(n) ==
    {[columns |-> C, rows |-> [i \in 1..Len(rs) |-> Restrict(rs[i], C)]] :
        C \in SUBSET RequiredColumns, rs \in SeqsUpTo(FullRows, n)}

NoTable == [columns |-> {}, rows |-> <<>>]

\* subprocess.Popen(predict.py ...): the table found on disk afterwards
LaunchDeepFri ==
    /\ pc = "predict"
    /\ \E t \in Tables(MaxPredRows) : csv' = t
    /\ pc' = "parse"
    /\ UNCHANGED <<fasta_list, k, dic, tdp, requests, outcomes, err, outfile,
                   UniProt_df, DeepFri_df, final_df>>

RECURSIVE InsertAsc(_, _)
InsertAsc(sorted, x) ==
    IF sorted = <<>> THEN <<x>>
    ELSE IF x.score < Head(sorted).score THEN <<x>> \o sorted
    ELSE <<Head(sorted)>> \o InsertAsc(Tail(sorted), x)

\* a stable ascending sort by score
RECURSIVE StableSortAsc(_)
StableSortAsc(xs) ==
    IF xs = <<>> THEN <<>>
    ELSE InsertAsc(StableSortAsc(SubSeq(xs, 1, Len(xs) - 1)), xs[Len(xs)])

\* sorted(row_tuples, key=attrgetter('score'))[::-1]: equal scores reversed
SortedThenReversed(xs) == Reverse(StableSortAsc(xs))

\* sorted(row_tuples, key=attrgetter('score'), reverse=True): the list is
\* reversed, sorted stably and reversed again
SortedByScoreDesc(xs) == Reverse(StableSortAsc(Reverse(xs)))

DeepFriPrefix == "DeepFri predictions: "

\* the body of the loop over df['Protein'].unique()
GroupRow(df, protein) ==
    LET subdf == SelectSeq(df.rows, LAMBDA row : row["Protein"] = protein)
        row_tuples == [i \in 1..Len(subdf) |->
                          [id_   |-> subdf[i]["Protein"],
                           score |-> subdf[i]["Score"],
                           GO    |-> subdf[i]["GO_term/EC_number name"]]]
        sorted_row_tuples == SortedByScoreDesc(row_tuples)
        GOs == DeepFriPrefix
               \o Join([i \in 1..Len(sorted_row_tuples) |-> sorted_row_tuples[i].GO],
                       " | ")
    IN  <<row_tuples[1].id_, GOs>>

\* DeepFriParser on the table read: KeyError at df['Protein'] or at
\* row["Score"] / row["GO_term/EC_number name"] of the first row
DeepFriParser(df) ==
    IF "Protein" \notin df.columns
    THEN [raised |-> TRUE, df |-> NoFrame]
    ELSE LET proteins == Unique([i \in 1..Len(df.rows) |-> df.rows[i]["Protein"]])
         IN  IF proteins # <<>> /\ ~(RequiredColumns \subseteq df.columns)
             THEN [raised |-> TRUE, df |-> NoFrame]
             ELSE [raised |-> FALSE,
                   df |-> [columns |-> FrameColumns,
                           rows |-> [j \in 1..Len(proteins) |->
                                        GroupRow(df, proteins[j])]]]

DeepFriParse ==
    /\ pc = "parse"
    /\ LET r == DeepFriParser(csv)
       IN  IF r.raised
           THEN /\ pc' = "raised"
                /\ err' = [type |-> "KeyError", stage |-> "DeepFriParser", at |-> 0]
                /\ UNCHANGED DeepFri_df
           ELSE /\ DeepFri_df' = r.df
                /\ pc' = "merge"
                /\ UNCHANGED err
    /\ UNCHANGED <<fasta_list, k, dic, tdp, requests, outcomes, outfile,
                   UniProt_df, csv, final_df>>

---------------------------------------------------------------------------
\* main: merge the two frames, add the excluded proteins, write the table

UnknownText == "Uknown function"

\* pd.concat([DeepFri_df, UniProt_df]): the two frames the other way round
FinalFramePredictedFirst(fasta, U, D) ==
    LET merged == Concat(D, U)
        catched_proteins == Range(Unique(Column(merged, "Protein")))
        excluded == SelectSeq(fasta, LAMBDA id : id \notin catched_proteins)
        missing_df == [columns |-> FrameColumns,
                       rows |-> [i \in 1..Len(excluded) |->
                                    <<excluded[i], UnknownText>>]]
    IN  Concat(merged, missing_df)

FinalFrame(fasta, U, D) ==
    LET merged == Concat(U, D)
        catched_proteins == Range(Unique(Column(merged, "Protein")))
        excluded == SelectSeq(fasta, LAMBDA id : id \notin catched_proteins)
        missing_df == [columns |-> FrameColumns,
                       rows |-> [i \in 1..Len(excluded) |->
                                    <<excluded[i], UnknownText>>]]
    IN  Concat(merged, missing_df)

MergeAndSave ==
    /\ pc = "merge"
    /\ final_df' = FinalFrame(fasta_list, UniProt_df, DeepFri_df)
    /\ pc' = "done"
    /\ UNCHANGED <<fasta_list, k, dic, tdp, requests, outcomes, err, outfile,
                   UniProt_df, csv, DeepFri_df>>

---------------------------------------------------------------------------
\* Specifications

Init ==
    /\ fasta_list \in SeqsUpTo(IdPool, MaxRecords)
    /\ pc = "extract"
    /\ k = 1
    /\ dic = <<>>
    /\ tdp = <<>>
    /\ requests = <<>>
    /\ outcomes = <<>>
    /\ err = NoError
    /\ outfile = <<>>
    /\ UniProt_df = NoFrame
    /\ csv = NoTable
    /\ DeepFri_df = NoFrame
    /\ final_df = NoFrame

Next ==
    \/ \E o \in LookupOutcomes : ExtractFunction(o)
    \/ BuildFrame
    \/ LaunchDeepFri
    \/ DeepFriParse
    \/ MergeAndSave

\* a run of main
Spec == Init /\ [][Next]_vars

\* DeepFriParser alone, on every table within MaxRows
InitParser ==
    /\ fasta_list = <<>>
    /\ pc = "parse"
    /\ k = 1
    /\ dic = <<>>
    /\ tdp = <<>>
    /\ requests = <<>>
    /\ outcomes = <<>>
    /\ err = NoError
    /\ outfile = <<>>
    /\ UniProt_df = NoFrame
    /\ csv \in Tables(MaxRows)
    /\ DeepFri_df = NoFrame
    /\ final_df = NoFrame

NextParser == DeepFriParse

SpecParser == InitParser /\ [][NextParser]_vars

---------------------------------------------------------------------------
\* Properties

InputIds == Range(fasta_list)

\* the rows of a (Protein, Function) frame that are about one protein
RowsOf(df, id) == {i \in 1..Len(df.rows) : df.rows[i][1] = id}

FirstRow(df, id) == CHOOSE i \in RowsOf(df, id) : \A j \in RowsOf(df, id) : i <= j

HasPrefix(s, p) == Len(s) >= Len(p) /\ SubSeq(s, 1, Len(p)) = p

\* C1: with pairwise distinct input identifiers the table written has exactly
\* one row per input identifier: no Protein value twice, and the Protein
\* values are exactly the input identifiers.
C1_OneRowPerInput ==
    (pc = "done" /\ Distinct(fasta_list)) =>
        /\ Distinct(Column(final_df, "Protein"))
        /\ Range(Column(final_df, "Protein")) = InputIds

\* C2: an input identifier with both a curated row and a predicted row is
\* written with the curated text only.
C2_CuratedPriority ==
    pc = "done" =>
        \A id \in InputIds :
            (RowsOf(UniProt_df, id) # {} /\ RowsOf(DeepFri_df, id) # {}) =>
                /\ RowsOf(final_df, id) # {}
                /\ \A i \in RowsOf(final_df, id) :
                       final_df.rows[i][2] =
                           UniProt_df.rows[FirstRow(UniProt_df, id)][2]

\* C3: an input identifier in neither table gets a row whose Function is
\* exactly "Unknown function".
C3_UnknownFallback ==
    pc = "done" =>
        \A id \in InputIds :
            (RowsOf(UniProt_df, id) = {} /\ RowsOf(DeepFri_df, id) = {}) =>
                /\ RowsOf(final_df, id) # {}
                /\ \A i \in RowsOf(final_df, id) :
                       final_df.rows[i][2] = "Unknown function"

\* C4: when the extraction loop has finished, the keys of dic and the records
\* of tdp are disjoint and together are all the input identifiers.
C4_Partition ==
    (pc = "extract" /\ k > Len(fasta_list)) =>
        /\ DictKeys(dic) \cap Range(tdp) = {}
        /\ DictKeys(dic) \cup Range(tdp) = InputIds

\* the rows of the table read that are about one protein
GroupIdx(p) == {i \in 1..Len(csv.rows) : csv.rows[i]["Protein"] = p}

\* the place of row i among the rows of its protein: after the rows of a
\* higher score and after the earlier rows of the same score
Rank(i) ==
    1 + Cardinality({j \in GroupIdx(csv.rows[i]["Protein"]) :
            \/ csv.rows[j]["Score"] > csv.rows[i]["Score"]
            \/ csv.rows[j]["Score"] = csv.rows[i]["Score"] /\ j < i})

RankedLabels(p) ==
    [r \in 1..Cardinality(GroupIdx(p)) |->
        csv.rows[CHOOSE i \in GroupIdx(p) : Rank(i) = r]["GO_term/EC_number name"]]

RECURSIVE Separated(_, _)
Separated(labels, n) ==
    IF n = 1 THEN labels[1]
    ELSE Separated(labels, n - 1) \o " | " \o labels[n]

\* C5: DeepFriParser returns one row per protein of the table, whose text is
\* the prefix followed by that protein's labels by score descending, equal
\* scores in table order, joined by " | "; one label alone has no separator.
C5_Ranking ==
    pc = "merge" =>
        /\ Distinct(Column(DeepFri_df, "Protein"))
        /\ Range(Column(DeepFri_df, "Protein")) =
               {csv.rows[i]["Protein"] : i \in 1..Len(csv.rows)}
        /\ \A r \in 1..Len(DeepFri_df.rows) :
               LET p == DeepFri_df.rows[r][1]
                   n == Cardinality(GroupIdx(p))
               IN  /\ DeepFri_df.rows[r][2] =
                          "DeepFri predictions: " \o Separated(RankedLabels(p), n)
                   /\ n = 1 =>
                          \E i \in GroupIdx(p) :
                              DeepFri_df.rows[r][2] =
                                  "DeepFri predictions: "
                                  \o csv.rows[i]["GO_term/EC_number name"]

\* C5 witness: one protein with scores 1, 2, 2 and labels A, A, B in table
\* order is returned as A | B | A.
C5_Witness ==
    /\ pc = "merge"
    /\ Len(csv.rows) = 3
    /\ [i \in 1..3 |-> csv.rows[i]["Protein"]] = <<"tr|P2", "tr|P2", "tr|P2">>
    /\ [i \in 1..3 |-> csv.rows[i]["Score"]] = <<1, 2, 2>>
    /\ [i \in 1..3 |-> csv.rows[i]["GO_term/EC_number name"]] = <<"A", "A", "B">>
    /\ DeepFri_df.rows = << <<"tr|P2", "DeepFri predictions: A | B | A">> >>

\* every lookup so far returned the comments or raised KeyError('comment_function')
AllFoundOrNotFound ==
    \A i \in 1..Len(outcomes) :
        \/ outcomes[i].kind = "found"
        \/ outcomes[i].kind = "KeyError" /\ outcomes[i].key = "comment_function"

\* C6: when every lookup succeeds or reports not found, retrieve_entry_function
\* returns a (Protein, Function) table without raising, also for no record and
\* for no curated entry; with no input record the table written is empty.
C6_NotFoundNonFatal ==
    (AllFoundOrNotFound /\ pc # "extract") =>
        /\ err.stage # "retrieve_entry_function"
        /\ UniProt_df.columns = FrameColumns
        /\ (pc = "done" /\ fasta_list = <<>>) => final_df.rows = <<>>

\* C7: a lookup that fails otherwise than by KeyError('comment_function')
\* ends the run with that failure at that record.
C7_OtherFailurePropagates ==
    \A i \in 1..Len(outcomes) :
        (\/ outcomes[i].kind = "URLError"
         \/ outcomes[i].kind = "KeyError" /\ outcomes[i].key # "comment_function")
        => /\ pc = "raised"
           /\ err.at = i
           /\ err.type = outcomes[i].kind

\* C8: a table without one of the three required columns never gets through
\* DeepFriParser, whatever its rows.
C8_SchemaErrorFatal ==
    (pc # "parse" /\ ~(RequiredColumns \subseteq csv.columns)) => pc = "raised"

NoSecondField(id) == ~ \E i \in 1..Len(id) : SubSeq(id, i, i) = "|"

\* C9: a record whose identifier has no second |-field stops the run with
\* IndexError at that record: no lookup is issued for it and it is in
\* neither dic nor tdp.
C9_MalformedIdentifier ==
    \A i \in 1..Len(fasta_list) :
        NoSecondField(fasta_list[i]) =>
            /\ \A r \in 1..Len(requests) : requests[r].rec # i
            /\ fasta_list[i] \notin DictKeys(dic)
            /\ fasta_list[i] \notin Range(tdp)
            /\ k <= i
            /\ pc \notin {"predict", "parse", "merge", "done"}
            /\ Len(outcomes) >= i =>
                   /\ pc = "raised"
                   /\ err = [type |-> "IndexError",
                             stage |-> "retrieve_entry_function", at |-> i]

\* C9 witness: the second record has no accession field; the first was
\* looked up, the second was not.
C9_Witness ==
    /\ Len(fasta_list) = 2
    /\ ~NoSecondField(fasta_list[1])
    /\ NoSecondField(fasta_list[2])
    /\ Len(outcomes) = 2
    /\ Len(requests) = 1
    /\ pc = "raised"

SourceOf(row) ==
    IF HasPrefix(row[2], "Uniprot annotations: ") THEN 1
    ELSE IF HasPrefix(row[2], "DeepFri predictions: ") THEN 2
    ELSE 3

InputPos(id) == CHOOSE a \in 1..Len(fasta_list) : fasta_list[a] = id

TablePos(id) == CHOOSE i \in GroupIdx(id) : \A j \in GroupIdx(id) : i <= j

====
